---- MODULE Spec2Model ----
(***************************************************************************)
(* Model of the multi-agent coordination code of research-agent:           *)
(*   src/models.py       MultiAgentContext and the result schemas          *)
(*   src/agents.py       the coordinator's tool functions                  *)
(*   src/multi_agent.py  MultiAgentSystem.process_request and the session  *)
(*                                                                         *)
(* The language-model backends are external: a run of an agent is a        *)
(* suspension point that ends with a candidate output (validated against   *)
(* the agent's output_type) or with an exception.  Python f-strings are    *)
(* modelled as tuples of their pieces; timestamps are left out.            *)
(***************************************************************************)
EXTENDS Integers, Sequences, FiniteSets, TLC

VARIABLES
    context,         \* MultiAgentSystem.context : MultiAgentContext
    pc,              \* where process_request is suspended, or "idle"
    dispatcher_cancels, \* whether the coordinator run, when a tool call
                     \* raises, cancels the tool coroutines still suspended
    run_context_of_deps, \* whether RunContext(deps) alone constructs
    in_flight,       \* tool call number -> frame of the tool coroutine that
                     \* is suspended on a specialist's run()
    calls,           \* tools the coordinator called in this request, in order
    speaker,         \* per conversation entry: <<request number, tool call
                     \* number or 0, function that appended it>>
    writer,          \* per TaskSummary: <<request number, tool call number>>
                     \* of the tool call that appended it
    response,        \* value returned by the last process_request
    outcome,         \* how the last process_request ended, or "pending"
    history_output,  \* value get_task_history returned in the last step
    last_op,         \* name of the function that ran in the last step
    n_requests,      \* process_request calls so far
    n_tool_calls,    \* tool calls of the coordinator that run a specialist,
                     \* so far
    n_history_calls, \* get_task_history calls of the coordinator so far
    conv_mark,       \* len(conversation_history) when the request started
    task_mark,       \* len(task_history) when the request started
    invoked,         \* per request: specialist runs its tool calls started
    returned_ok,     \* per request: of these, the runs that returned a result
    last_returned    \* per agent: output of its latest run that returned

vars == <<context, pc, dispatcher_cancels, run_context_of_deps, in_flight,
          calls, speaker, writer, response, outcome, history_output, last_op,
          n_requests, n_tool_calls, n_history_calls, conv_mark, task_mark,
          invoked, returned_ok, last_returned>>

(***************************************************************************)
(* Bounds of the model                                                     *)
(***************************************************************************)
\* process_request calls in a session
MaxRequests == 2
\* tool calls that run a specialist, which the coordinator makes in a session
MaxToolCalls == 2
\* get_task_history calls the coordinator makes in a session
MaxHistoryCalls == 1
\* longest key_points list a research candidate carries
MaxKeyPoints == 6
\* largest complexity_score a code-analysis candidate carries
MaxScore == 11

(***************************************************************************)
(* Program constants                                                       *)
(***************************************************************************)
\* models.py:15  min_items=3
MinItems == 3
\* models.py:15  max_items=5
MaxItems == 5
\* models.py:22  ge=1
ScoreGe == 1
\* models.py:22  le=10
ScoreLe == 10
\* agents.py:207  task_history[-5:]
HistoryLimit == 5

ResearchAgent == "research_agent"
CodeAgent     == "code_agent"
CreativeAgent == "creative_agent"
Agents        == {ResearchAgent, CodeAgent, CreativeAgent}

\* multi_agent.py:45  the prefix of every error response
ErrorPrefix == "X Error processing request: "
\* agents.py:204
NoTasksMessage == "No tasks completed yet in this session."
\* models.py:55  session_id (timestamp-derived, fixed for the session)
SessionId == "session"

(***************************************************************************)
(* Inputs                                                                  *)
(***************************************************************************)
UserInputs  == {"request"}
Topics      == {"topic"}
Codes       == {"code"}
Languages   == {"auto-detect"}
\* agents.py:178-180  content_type defaults to "article", audience to
\* "general", tone to "professional"
ContentTypes == {"article"}
Audiences    == {"general"}
Tones        == {"professional"}
Confidences == {"High"}
Outputs     == {"answer"}
Errors      == {"BackendUnavailable"}
\* a text is a sequence of characters
Contents    == {<<"a", " ", "b">>}
WordCounts  == {3}

NoFrame  == [kind |-> "none"]
NoResult == [kind |-> "none"]
NoOutput == [kind |-> "none"]

key_points_of(n) == [i \in 1..n |-> "point"]

\* candidate outputs the research backend may produce
ResearchCandidates ==
    [kind : {"ResearchResult"}, topic : Topics, summary : {"summary"},
     sources_needed : {<<>>},
     key_points : {key_points_of(n) :
                      n \in {MinItems - 1, MinItems, MaxKeyPoints}},
     confidence_level : Confidences]

\* candidate outputs the code-analysis backend may produce
CodeCandidates ==
    [kind : {"CodeAnalysis"}, language : {"python"},
     complexity_score : {0, ScoreGe, ScoreLe, MaxScore},
     issues_found : {<<>>}, suggestions : {<<>>}, security_concerns : {<<>>}]

\* candidate outputs the creative backend may produce
CreativeCandidates ==
    [kind : {"CreativeContent"}, content_type : {"report"}, title : {"title"},
     content : Contents, target_audience : {"professional"},
     tone : {"analytical"}, word_count : WordCounts]

(***************************************************************************)
(* models.py: schemas                                                      *)
(***************************************************************************)
\* ResearchResult: key_points has min_items=3, max_items=5
\* mutant: the lower bound min_items is not checked
ValidResearchResult_max_only(r) == Len(r.key_points) <= MaxItems

ValidResearchResult(r) ==
    /\ Len(r.key_points) >= MinItems
    /\ Len(r.key_points) <= MaxItems

\* CodeAnalysis: complexity_score has ge=1, le=10
ValidCodeAnalysis(r) ==
    /\ r.complexity_score >= ScoreGe
    /\ r.complexity_score <= ScoreLe

\* CreativeContent: every field is required, none is constrained
ValidCreativeContent(r) == r.word_count \in Int

TaskSummary(task_type, agents_used, status, result_summary) ==
    [task_type |-> task_type, agents_used |-> agents_used,
     status |-> status, result_summary |-> result_summary]

(***************************************************************************)
(* models.py: MultiAgentContext                                            *)
(***************************************************************************)
MultiAgentContext ==
    [conversation_history |-> <<>>, task_history |-> <<>>,
     agent_results |-> [a \in {} |-> NoFrame]]

\* mutant: list.insert(0, entry) instead of list.append(entry)
add_conversation_front(ctx, role, content, agent_name) ==
    [ctx EXCEPT !.conversation_history =
        <<[role |-> role, content |-> content, agent |-> agent_name]>> \o @]

add_conversation(ctx, role, content, agent_name) ==
    [ctx EXCEPT !.conversation_history =
        Append(@, [role |-> role, content |-> content, agent |-> agent_name])]

add_task_result(ctx, task_summary) ==
    [ctx EXCEPT !.task_history = Append(@, task_summary)]

\* mutant: the map is replaced instead of updated
store_agent_result_replacing(ctx, agent_name, result) ==
    [ctx EXCEPT !.agent_results = [a \in {agent_name} |-> result]]

store_agent_result(ctx, agent_name, result) ==
    [ctx EXCEPT !.agent_results =
        [a \in (DOMAIN @) \cup {agent_name} |->
            IF a = agent_name THEN result ELSE @[a]]]


\* models.py:74-77  get_recent_context is called nowhere in the repository.

(***************************************************************************)
(* agents.py: tool functions, each cut at its await                        *)
(***************************************************************************)
\* delegate_research up to the await of research_agent.run
delegate_research_begin(ctx, topic) ==
    add_conversation(ctx, "system", <<"Delegating research: ", topic>>,
                     "coordinator")

research_prompt(topic) == <<"Research this topic: ", topic>>

\* mutant: the result is stored but no TaskSummary is added
delegate_research_end_no_task(ctx, research_data) ==
    store_agent_result(ctx, ResearchAgent, research_data)

\* delegate_research after research_agent.run returned research_data
delegate_research_end(ctx, research_data) ==
    add_task_result(
        store_agent_result(ctx, ResearchAgent, research_data),
        TaskSummary("research", <<ResearchAgent>>, "completed",
                    <<"Researched: ", research_data.topic, " (Confidence: ",
                      research_data.confidence_level, ")">>))

\* delegate_code_analysis up to the await of code_agent.run
delegate_code_analysis_begin(ctx, language) ==
    add_conversation(ctx, "system",
                     <<"Delegating code analysis for ", language>>,
                     "coordinator")

\* the three grave accents that fence the code in the prompt: a TLA+
\* string cannot hold a grave accent, the name stands for them
Fence == "[3 grave accents]"

\* f"Analyze this {language} code:\n\n[Fence]\n{code}\n[Fence]"
code_prompt(code, language) ==
    <<"Analyze this ", language, " code:\n\n", Fence, "\n", code, "\n",
      Fence>>

\* mutant: the TaskSummary carries the task_type of delegate_research
delegate_code_analysis_end_as_research(ctx, code_data) ==
    add_task_result(
        store_agent_result(ctx, CodeAgent, code_data),
        TaskSummary("research", <<CodeAgent>>, "completed",
                    <<"Analyzed ", code_data.language, " code (Complexity: ",
                      code_data.complexity_score, "/10)">>))

\* delegate_code_analysis after code_agent.run returned code_data
delegate_code_analysis_end(ctx, code_data) ==
    add_task_result(
        store_agent_result(ctx, CodeAgent, code_data),
        TaskSummary("code_analysis", <<CodeAgent>>, "completed",
                    <<"Analyzed ", code_data.language, " code (Complexity: ",
                      code_data.complexity_score, "/10)">>))

\* delegate_content_creation up to the await of creative_agent.run
delegate_content_creation_begin(ctx, content_type) ==
    add_conversation(ctx, "system",
                     <<"Delegating content creation: ", content_type>>,
                     "coordinator")

creative_prompt(content_request, content_type, audience, tone) ==
    <<"Create ", content_type, " content about: ", content_request,
      ". Target audience: ", audience, ". Tone: ", tone>>

\* delegate_content_creation after creative_agent.run returned creative_data
delegate_content_creation_end(ctx, creative_data) ==
    add_task_result(
        store_agent_result(ctx, CreativeAgent, creative_data),
        TaskSummary("content_creation", <<CreativeAgent>>, "completed",
                    <<"Created ", creative_data.content_type, ": ",
                      creative_data.title, " (", creative_data.word_count,
                      " words)">>))

\* str.upper() on the task types the code writes
upper(task_type) ==
    CASE task_type = "research"         -> "RESEARCH"
      [] task_type = "code_analysis"    -> "CODE_ANALYSIS"
      [] task_type = "content_creation" -> "CONTENT_CREATION"
      [] task_type = "complex_analysis" -> "COMPLEX_ANALYSIS"

\* mutant: seq[:k], the first k instead of the last k
last_slice_head(seq, k) ==
    SubSeq(seq, 1, (IF Len(seq) > k THEN k ELSE Len(seq)))

\* seq[-k:] of Python
last_slice(seq, k) ==
    SubSeq(seq, (IF Len(seq) > k THEN Len(seq) - k + 1 ELSE 1), Len(seq))

\* get_task_history: the text it returns, as header and numbered entries
get_task_history(ctx) ==
    IF ctx.task_history = <<>>
    THEN [kind |-> "text", header |-> <<NoTasksMessage>>, entries |-> <<>>]
    ELSE LET recent == last_slice(ctx.task_history, HistoryLimit)
         IN  [kind    |-> "text",
              header  |-> <<"Session ", SessionId, " - ",
                            Len(ctx.task_history), " tasks completed:">>,
              entries |-> [i \in 1..Len(recent) |->
                             <<i, upper(recent[i].task_type),
                               recent[i].result_summary,
                               recent[i].agents_used, recent[i].status>>]]

\* complex_research_analysis up to its call of delegate_research
complex_research_analysis_begin(ctx, topic) ==
    add_conversation(ctx, "system", <<"Starting complex analysis: ", topic>>,
                     "coordinator")

\* complex_research_analysis: report_request built from the research result
report_request(research_result) ==
    <<"Create a comprehensive report based on this research: ",
      research_result.summary, ". Include the key points: ",
      research_result.key_points>>

\* mutant: agents_used lists the agents in the wrong order
complex_research_analysis_end_swapped(ctx, topic) ==
    add_task_result(ctx,
        TaskSummary("complex_analysis", <<CreativeAgent, ResearchAgent>>,
                    "completed",
                    <<"Complex analysis of '", topic,
                      "' with research and report generation">>))

\* complex_research_analysis after both delegate calls returned
complex_research_analysis_end(ctx, topic) ==
    add_task_result(ctx,
        TaskSummary("complex_analysis", <<ResearchAgent, CreativeAgent>>,
                    "completed",
                    <<"Complex analysis of '", topic,
                      "' with research and report generation">>))

(***************************************************************************)
(* multi_agent.py: MultiAgentSystem.process_request                        *)
(***************************************************************************)
\* the try block up to the await of coordinator_agent.run
process_request_begin(ctx, user_input) ==
    add_conversation(ctx, "user", <<user_input>>, "user")

\* the try block after coordinator_agent.run returned
process_request_end(ctx, resp) ==
    add_conversation(ctx, "assistant", resp, "coordinator")

error_msg(e) == <<ErrorPrefix, e>>

\* mutant: the except block drops what the failed request recorded
process_request_except_rollback(ctx, e) ==
    add_conversation(
        [ctx EXCEPT !.task_history = SubSeq(@, 1, task_mark)],
        "system", error_msg(e), "error")

\* mutant: the except block also records the failure as a TaskSummary
process_request_except_failed_task(ctx, e) ==
    add_task_result(
        add_conversation(ctx, "system", error_msg(e), "error"),
        TaskSummary("error", <<"coordinator">>, "failed", error_msg(e)))

\* the except block
process_request_except(ctx, e) ==
    add_conversation(ctx, "system", error_msg(e), "error")

(***************************************************************************)
(* State machine                                                           *)
(*                                                                         *)
(* process_request awaits coordinator_agent.run (multi_agent.py:33), which *)
(* calls the tool functions.  A tool function is a coroutine: it runs to   *)
(* its await of a specialist's run() and is suspended there, and nothing   *)
(* in src/ keeps the coordinator from calling a further tool meanwhile.    *)
(* The suspended tool coroutines are resumed in the order in which their   *)
(* runs end.  An exception that leaves a tool coroutine ends the           *)
(* coordinator's run.  src/ cancels nothing: whether the tool coroutines   *)
(* still suspended are cancelled with the coordinator's run or are left    *)
(* running is decided by the dispatcher of the coordinator's run, and both *)
(* are modelled (dispatcher_cancels).  A tool coroutine left running goes  *)
(* on to write to the context when its run returns, after process_request *)
(* has returned; an exception of its run reaches no one.                   *)
(***************************************************************************)
NoRuns == [id \in {} |-> NoFrame]

\* the frame of a tool coroutine of request `req` suspended on
\* agent.run(prompt)
Frame(req, tool, agent, prompt, topic, research_result) ==
    [req |-> req, tool |-> tool, agent |-> agent, prompt |-> prompt,
     topic |-> topic, research_result |-> research_result]

Suspend(id, frame) ==
    [i \in (DOMAIN in_flight) \cup {id} |->
        IF i = id THEN frame ELSE in_flight[i]]

Resume(id) == [i \in (DOMAIN in_flight) \ {id} |-> in_flight[i]]

\* the tool coroutine `id` was left running by a request that has returned
Orphan(id) == pc = "idle" \/ in_flight[id].req # n_requests

\* the tool coroutines the coordinator's run is waiting for
Awaited == {id \in DOMAIN in_flight : ~Orphan(id)}

\* what is left suspended when tool coroutine `id` raises
Abandon(id) == IF dispatcher_cancels THEN NoRuns ELSE Resume(id)

Init ==
    /\ context = MultiAgentContext
    /\ pc = "idle"
    /\ dispatcher_cancels \in BOOLEAN
    /\ run_context_of_deps \in BOOLEAN
    /\ in_flight = NoRuns
    /\ calls = <<>>
    /\ speaker = <<>>
    /\ writer = <<>>
    /\ response = <<>>
    /\ outcome = "none"
    /\ history_output = NoOutput
    /\ last_op = "__init__"
    /\ n_requests = 0
    /\ n_tool_calls = 0
    /\ n_history_calls = 0
    /\ conv_mark = 0
    /\ task_mark = 0
    /\ invoked = <<>>
    /\ returned_ok = <<>>
    /\ last_returned = [a \in Agents |-> NoResult]

\* an exception leaves the awaited run, unwinds the tool function and
\* coordinator_agent.run, and reaches the except block of process_request
Raise(e) ==
    /\ context' = process_request_except(context, e)
    /\ speaker' = Append(speaker, <<n_requests, 0, "process_request_except">>)
    /\ response' = error_msg(e)
    /\ outcome' = "error"
    /\ pc' = "idle"
    /\ last_op' = "process_request_except"
    /\ history_output' = NoOutput
    /\ UNCHANGED <<dispatcher_cancels, run_context_of_deps, calls, writer,
                   n_requests, n_tool_calls, n_history_calls, conv_mark,
                   task_mark, invoked, returned_ok, last_returned>>

\* an exception leaves the run of a tool coroutine that no one awaits any
\* more: the coroutine ends and the exception is not seen
Lost(id) ==
    /\ in_flight' = Resume(id)
    /\ last_op' = "exception_never_retrieved"
    /\ history_output' = NoOutput
    /\ UNCHANGED <<context, pc, dispatcher_cancels, run_context_of_deps,
                   calls, speaker, writer, response, outcome, n_requests,
                   n_tool_calls, n_history_calls, conv_mark, task_mark,
                   invoked, returned_ok, last_returned>>

\* the run of tool coroutine `id` ends with the exception e
Fails(id, e) ==
    IF Orphan(id)
    THEN Lost(id)
    ELSE Raise(e) /\ in_flight' = Abandon(id)

\* a tool call of the coordinator that runs a specialist is counted and
\* named
ToolCall(tool) ==
    /\ pc = "coordinator"
    /\ n_tool_calls < MaxToolCalls
    /\ n_tool_calls' = n_tool_calls + 1
    /\ calls' = Append(calls, tool)
    /\ last_op' = tool

\* a specialist's run() starts: the tool coroutine is suspended on it
StartRun(id, frame) ==
    /\ in_flight' = Suspend(id, frame)
    /\ invoked' = [invoked EXCEPT ![frame.req] = @ + 1]

\* a specialist's run() returned `result` to the tool coroutine `id`
EndRun(id, agent, result) ==
    /\ returned_ok' = [returned_ok EXCEPT ![in_flight[id].req] = @ + 1]
    /\ last_returned' = [last_returned EXCEPT ![agent] = result]

\* process_request(user_input), up to the await of coordinator_agent.run
process_request(user_input) ==
    /\ pc = "idle"
    /\ n_requests < MaxRequests
    /\ context' = process_request_begin(context, user_input)
    /\ speaker' = Append(speaker, <<n_requests + 1, 0, "process_request">>)
    /\ pc' = "coordinator"
    /\ calls' = <<>>
    /\ outcome' = "pending"
    /\ n_requests' = n_requests + 1
    /\ conv_mark' = Len(context.conversation_history)
    /\ task_mark' = Len(context.task_history)
    /\ invoked' = Append(invoked, 0)
    /\ returned_ok' = Append(returned_ok, 0)
    /\ last_op' = "process_request"
    /\ history_output' = NoOutput
    /\ UNCHANGED <<dispatcher_cancels, run_context_of_deps, n_tool_calls,
                   n_history_calls, in_flight, writer, response,
                   last_returned>>

\* the coordinator calls the tool delegate_research(topic)
call_delegate_research(topic) ==
    /\ ToolCall("delegate_research")
    /\ context' = delegate_research_begin(context, topic)
    /\ speaker' = Append(speaker, <<n_requests, n_tool_calls + 1,
                                    "delegate_research">>)
    /\ StartRun(n_tool_calls + 1,
                Frame(n_requests, "delegate_research", ResearchAgent,
                      research_prompt(topic), topic, NoResult))
    /\ history_output' = NoOutput
    /\ UNCHANGED <<pc, dispatcher_cancels, run_context_of_deps, writer,
                   response, outcome, n_requests, conv_mark, task_mark,
                   returned_ok, last_returned, n_history_calls>>

\* the coordinator calls the tool delegate_code_analysis(code, language)
call_delegate_code_analysis(code, language) ==
    /\ ToolCall("delegate_code_analysis")
    /\ context' = delegate_code_analysis_begin(context, language)
    /\ speaker' = Append(speaker, <<n_requests, n_tool_calls + 1,
                                    "delegate_code_analysis">>)
    /\ StartRun(n_tool_calls + 1,
                Frame(n_requests, "delegate_code_analysis", CodeAgent,
                      code_prompt(code, language), code, NoResult))
    /\ history_output' = NoOutput
    /\ UNCHANGED <<pc, dispatcher_cancels, run_context_of_deps, writer,
                   response, outcome, n_requests, conv_mark, task_mark,
                   returned_ok, last_returned, n_history_calls>>

\* the coordinator calls the tool delegate_content_creation(content_request,
\* content_type, audience, tone)
call_delegate_content_creation(content_request, content_type, audience, tone) ==
    /\ ToolCall("delegate_content_creation")
    /\ context' = delegate_content_creation_begin(context, content_type)
    /\ speaker' = Append(speaker, <<n_requests, n_tool_calls + 1,
                                    "delegate_content_creation">>)
    /\ StartRun(n_tool_calls + 1,
                Frame(n_requests, "delegate_content_creation", CreativeAgent,
                      creative_prompt(<<content_request>>, content_type,
                                      audience, tone),
                      content_request, NoResult))
    /\ history_output' = NoOutput
    /\ UNCHANGED <<pc, dispatcher_cancels, run_context_of_deps, writer,
                   response, outcome, n_requests, conv_mark, task_mark,
                   returned_ok, last_returned, n_history_calls>>

\* the coordinator calls the tool complex_research_analysis(topic), which
\* runs on into delegate_research(ctx, topic) up to its await
call_complex_research_analysis(topic) ==
    /\ ToolCall("complex_research_analysis")
    /\ context' = delegate_research_begin(
                      complex_research_analysis_begin(context, topic), topic)
    /\ speaker' = speaker \o
                      << <<n_requests, n_tool_calls + 1,
                           "complex_research_analysis">>,
                         <<n_requests, n_tool_calls + 1,
                           "delegate_research">> >>
    /\ StartRun(n_tool_calls + 1,
                Frame(n_requests, "complex_research_analysis", ResearchAgent,
                      research_prompt(topic), topic, NoResult))
    /\ history_output' = NoOutput
    /\ UNCHANGED <<pc, dispatcher_cancels, run_context_of_deps, writer,
                   response, outcome, n_requests, conv_mark, task_mark,
                   returned_ok, last_returned, n_history_calls>>

\* the coordinator calls the tool get_task_history(), which has no await
call_get_task_history ==
    /\ pc = "coordinator"
    /\ n_history_calls < MaxHistoryCalls
    /\ n_history_calls' = n_history_calls + 1
    /\ calls' = Append(calls, "get_task_history")
    /\ last_op' = "get_task_history"
    /\ history_output' = get_task_history(context)
    /\ UNCHANGED <<context, pc, dispatcher_cancels, run_context_of_deps,
                   in_flight, speaker, writer, response, outcome, n_requests,
                   n_tool_calls, conv_mark, task_mark, invoked, returned_ok,
                   last_returned>>

\* research_agent.run of tool call `id` ends with the candidate output `cand`
research_agent_run(id, cand) ==
    /\ id \in DOMAIN in_flight
    /\ in_flight[id].agent = ResearchAgent
    /\ IF ~ValidResearchResult(cand)
       THEN Fails(id, "SchemaViolation")
       ELSE /\ EndRun(id, ResearchAgent, cand)
            /\ last_op' = "delegate_research"
            /\ writer' = Append(writer, <<in_flight[id].req, id>>)
            /\ IF in_flight[id].tool = "delegate_research"
               THEN \* delegate_research returns to the coordinator
                    /\ context' = delegate_research_end(context, cand)
                    /\ in_flight' = Resume(id)
                    /\ UNCHANGED <<invoked, speaker, n_history_calls>>
               ELSE \* complex_research_analysis goes on to
                    \* delegate_content_creation(ctx, report_request,
                    \*     "report", "professional", "analytical")
                    /\ context' = delegate_content_creation_begin(
                                      delegate_research_end(context, cand),
                                      "report")
                    /\ speaker' = Append(speaker,
                                      <<in_flight[id].req, id,
                                        "delegate_content_creation">>)
                    /\ StartRun(id,
                           Frame(in_flight[id].req,
                                 "complex_research_analysis", CreativeAgent,
                                 creative_prompt(report_request(cand),
                                     "report", "professional", "analytical"),
                                 in_flight[id].topic, cand))
            /\ history_output' = NoOutput
            /\ UNCHANGED <<pc, dispatcher_cancels, run_context_of_deps, calls,
                           response, outcome, n_requests, n_tool_calls,
                           n_history_calls, conv_mark, task_mark>>

\* code_agent.run of tool call `id` ends with the candidate output `cand`
code_agent_run(id, cand) ==
    /\ id \in DOMAIN in_flight
    /\ in_flight[id].agent = CodeAgent
    /\ IF ~ValidCodeAnalysis(cand)
       THEN Fails(id, "SchemaViolation")
       ELSE /\ EndRun(id, CodeAgent, cand)
            /\ context' = delegate_code_analysis_end(context, cand)
            /\ writer' = Append(writer, <<in_flight[id].req, id>>)
            /\ in_flight' = Resume(id)
            /\ last_op' = "delegate_code_analysis"
            /\ history_output' = NoOutput
            /\ UNCHANGED <<pc, dispatcher_cancels, run_context_of_deps, calls,
                           speaker, response, outcome, n_requests,
                           n_tool_calls, n_history_calls, conv_mark,
                           task_mark, invoked>>

\* creative_agent.run of tool call `id` ends with the candidate output `cand`
creative_agent_run(id, cand) ==
    /\ id \in DOMAIN in_flight
    /\ in_flight[id].agent = CreativeAgent
    /\ IF ~ValidCreativeContent(cand)
       THEN Fails(id, "SchemaViolation")
       ELSE /\ EndRun(id, CreativeAgent, cand)
            /\ IF in_flight[id].tool = "delegate_content_creation"
               THEN /\ context' = delegate_content_creation_end(context, cand)
                    /\ writer' = Append(writer, <<in_flight[id].req, id>>)
               ELSE /\ context' = complex_research_analysis_end(
                                      delegate_content_creation_end(context,
                                                                    cand),
                                      in_flight[id].topic)
                    /\ writer' = writer \o << <<in_flight[id].req, id>>,
                                              <<in_flight[id].req, id>> >>
            /\ in_flight' = Resume(id)
            /\ last_op' = in_flight[id].tool
            /\ history_output' = NoOutput
            /\ UNCHANGED <<pc, dispatcher_cancels, run_context_of_deps, calls,
                           speaker, response, outcome, n_requests,
                           n_tool_calls, n_history_calls, conv_mark,
                           task_mark, invoked>>

\* the run of a specialist ends with an exception of the backend
specialist_run_raises(id, e) ==
    /\ id \in DOMAIN in_flight
    /\ Fails(id, e)

\* coordinator_agent.run ends with an exception of the backend
coordinator_run_raises(e) ==
    /\ pc = "coordinator"
    /\ Awaited = {}
    /\ Raise(e)
    /\ UNCHANGED in_flight

\* coordinator_agent.run returns, every tool call having returned to it;
\* process_request runs to its return
coordinator_run_returns(output) ==
    /\ pc = "coordinator"
    /\ Awaited = {}
    /\ context' = process_request_end(context, <<output>>)
    /\ speaker' = Append(speaker, <<n_requests, 0, "process_request_end">>)
    /\ response' = <<output>>
    /\ outcome' = "ok"
    /\ pc' = "idle"
    /\ last_op' = "process_request"
    /\ history_output' = NoOutput
    /\ UNCHANGED <<dispatcher_cancels, run_context_of_deps, in_flight, calls,
                   writer, n_requests, n_tool_calls, n_history_calls,
                   conv_mark, task_mark, invoked, returned_ok, last_returned>>

\* run_interactive_session reads 'history' between two requests and builds
\* RunContext(self.context) (multi_agent.py:76).  RunContext is not of src/:
\* it takes the context alone, or it requires further arguments and raises.
session_history ==
    /\ pc = "idle"
    /\ run_context_of_deps
    /\ history_output' = get_task_history(context)
    /\ last_op' = "get_task_history"
    /\ UNCHANGED <<context, pc, dispatcher_cancels, run_context_of_deps,
                   in_flight, calls, speaker, writer, response, outcome,
                   n_requests, n_tool_calls, n_history_calls, conv_mark,
                   task_mark, invoked, returned_ok, last_returned>>

\* run_interactive_session reads 'history' and RunContext(self.context)
\* raises TypeError: get_task_history is not entered, the except clause of
\* the loop (multi_agent.py:90-91) prints the error and the loop goes on
session_history_raises ==
    /\ pc = "idle"
    /\ ~run_context_of_deps
    /\ history_output' = NoOutput
    /\ last_op' = "run_interactive_session_except"
    /\ UNCHANGED <<context, pc, dispatcher_cancels, run_context_of_deps,
                   in_flight, calls, speaker, writer, response, outcome,
                   n_requests, n_tool_calls, n_history_calls, conv_mark,
                   task_mark, invoked, returned_ok, last_returned>>

Next ==
    \/ \E user_input \in UserInputs : process_request(user_input)
    \/ \E topic \in Topics : call_delegate_research(topic)
    \/ \E code \in Codes, language \in Languages :
           call_delegate_code_analysis(code, language)
    \/ \E content_request \in Topics, content_type \in ContentTypes,
          audience \in Audiences, tone \in Tones :
           call_delegate_content_creation(content_request, content_type,
                                          audience, tone)
    \/ \E topic \in Topics : call_complex_research_analysis(topic)
    \/ call_get_task_history
    \/ \E id \in DOMAIN in_flight, cand \in ResearchCandidates :
           research_agent_run(id, cand)
    \/ \E id \in DOMAIN in_flight, cand \in CodeCandidates :
           code_agent_run(id, cand)
    \/ \E id \in DOMAIN in_flight, cand \in CreativeCandidates :
           creative_agent_run(id, cand)
    \/ \E id \in DOMAIN in_flight, e \in Errors : specialist_run_raises(id, e)
    \/ \E e \in Errors : coordinator_run_raises(e)
    \/ \E output \in Outputs : coordinator_run_returns(output)
    \/ session_history
    \/ session_history_raises

Spec == Init /\ [][Next]_vars

\* a step of a request in progress: an awaited run of the coordinator or of a
\* specialist ends (with a tool call, an output or an exception) and the
\* task that awaits it is resumed
RequestStep == pc # "idle" /\ Next

\* every awaited external call eventually ends and the event loop resumes the
\* task that awaits it
FairSpec == Spec /\ WF_vars(RequestStep)

(***************************************************************************)
(* Vocabulary of the properties                                            *)
(***************************************************************************)
ConversationLog == context.conversation_history
TaskHistory     == context.task_history
LastResults     == context.agent_results

\* the entries of seq from position i on whose mark names request r
RECURSIVE PickFrom(_, _, _, _)
PickFrom(seq, marks, r, i) ==
    IF i > Len(seq) \/ i > Len(marks) THEN <<>>
    ELSE (IF marks[i][1] = r THEN <<seq[i]>> ELSE <<>>)
             \o PickFrom(seq, marks, r, i + 1)

\* the entries of seq whose mark names request r, in their order
Pick(seq, marks, r) == PickFrom(seq, marks, r, 1)

\* what request r and its tool calls appended
ConvOf(r)     == Pick(ConversationLog, speaker, r)
SpeakersOf(r) == Pick(speaker, speaker, r)
TasksOf(r)    == Pick(TaskHistory, writer, r)

\* where in the log and in the task history they are
ConvIdx(r) == {i \in 1..Len(speaker) : speaker[i][1] = r}
TaskIdx(r) == {i \in 1..Len(writer) : writer[i][1] = r}

\* what the current (or last) request and its tool calls appended
ConvSince  == ConvOf(n_requests)
TasksSince == TasksOf(n_requests)

CountRole(log, role) == Cardinality({i \in 1..Len(log) : log[i].role = role})
CountKind(tasks, kind) ==
    Cardinality({i \in 1..Len(tasks) : tasks[i].task_type = kind})
CountSingle(tasks) ==
    Cardinality({i \in 1..Len(tasks) : Len(tasks[i].agents_used) = 1})
CountCalls(tool) == Cardinality({i \in 1..Len(calls) : calls[i] = tool})

RequestEnded == pc = "idle" /\ outcome \in {"ok", "error"}
Succeeded    == pc = "idle" /\ outcome = "ok"
Failed       == pc = "idle" /\ outcome = "error"

IsErrorEntry(entry) ==
    /\ entry.role = "system"
    /\ entry.agent = "error"
    /\ entry.content[1] = ErrorPrefix

CountErrors(log) ==
    Cardinality({i \in 1..Len(log) : IsErrorEntry(log[i])})

(***************************************************************************)
(* C1                                                                      *)
(***************************************************************************)
\* C1 as stated: every process_request call, whatever its outcome, appends
\* exactly one user entry at its start, exactly one TaskRecord per specialist
\* invoked, and exactly one assistant entry at its end.
C1_EveryCallUserTasksAssistant ==
    RequestEnded =>
        /\ ConvSince[1].role = "user"
        /\ CountRole(ConvSince, "user") = 1
        /\ ConvSince[Len(ConvSince)].role = "assistant"
        /\ CountRole(ConvSince, "assistant") = 1
        /\ Len(TasksSince) = invoked[n_requests]

\* the entries at positions ci of the log and ti of the task history, all
\* those of request r, have the shape of one call
CallShape(r, ci, ti) ==
    LET users     == {i \in ci : ConversationLog[i].role = "user"}
        answers   == {i \in ci : ConversationLog[i].role = "assistant"}
        errors    == {i \in ci : IsErrorEntry(ConversationLog[i])}
        single    == {i \in ti : Len(TaskHistory[i].agents_used) = 1}
        composite == {i \in ti :
                         TaskHistory[i].task_type = "complex_analysis"}
        ends      == Cardinality(answers) + Cardinality(errors)
    IN  /\ Cardinality(users) = 1
        /\ \A i \in users : \A j \in ci : i <= j
        /\ Cardinality(single) = returned_ok[r]
        /\ returned_ok[r] <= invoked[r]
        /\ ends <= 1
        /\ (r < n_requests \/ pc = "idle") => ends = 1
        /\ Cardinality(answers) = 1 =>
              /\ \A i \in answers : \A j \in ci : j <= i
              /\ returned_ok[r] = invoked[r]
              /\ Cardinality(ti) = invoked[r] + Cardinality(composite)

\* C1 amended: every process_request call appends exactly one user entry, as
\* its first entry, and its tool calls append exactly one single-agent
\* TaskRecord per specialist run that returned a result, whenever it returns;
\* a call that has returned appended either one assistant entry or one system
\* error entry, never both; a call that succeeds ends with the assistant
\* entry, every specialist it invoked has returned, and it has one
\* single-agent record per specialist invoked and one further composite
\* record per complex_research_analysis call.
C1_CallShape ==
    /\ Len(speaker) = Len(ConversationLog)
    /\ Len(writer) = Len(TaskHistory)
    /\ \A r \in 1..n_requests : CallShape(r, ConvIdx(r), TaskIdx(r))
    /\ Succeeded =>
          Len(TasksSince) = invoked[n_requests]
                                + CountCalls("complex_research_analysis")

\* a request failed in one of two tool calls under way together; the tool
\* coroutine of the other was left running and has written its record after
\* the error response
C1_Witness ==
    /\ Failed
    /\ ~dispatcher_cancels
    /\ invoked[n_requests] = 2
    /\ returned_ok[n_requests] = 1
    /\ last_op = "delegate_code_analysis"
    /\ IsErrorEntry(ConversationLog[Len(ConversationLog)])
    /\ Len(TasksSince) = 1

(***************************************************************************)
(* C2                                                                      *)
(***************************************************************************)
\* C2: a successful request routed to complex_research_analysis appended
\* exactly three TaskRecords: research, content_creation, complex_analysis, in
\* that order, the last with agents_used = [research_agent, creative_agent].
C2_CompositeThreeRecords ==
    (Succeeded /\ calls = <<"complex_research_analysis">>) =>
        /\ Len(TasksSince) = 3
        /\ TasksSince[1].task_type = "research"
        /\ TasksSince[1].agents_used = <<"research_agent">>
        /\ TasksSince[2].task_type = "content_creation"
        /\ TasksSince[2].agents_used = <<"creative_agent">>
        /\ TasksSince[3].task_type = "complex_analysis"
        /\ TasksSince[3].agents_used = <<"research_agent", "creative_agent">>
        /\ \A i \in 1..3 : TasksSince[i].status = "completed"

C2_Witness ==
    /\ Succeeded
    /\ calls = <<"complex_research_analysis">>
    /\ task_mark > 0

(***************************************************************************)
(* C3                                                                      *)
(***************************************************************************)
SingleTools ==
    {"delegate_research", "delegate_code_analysis",
     "delegate_content_creation"}

KindOfTool(tool) ==
    CASE tool = "delegate_research"         -> "research"
      [] tool = "delegate_code_analysis"    -> "code_analysis"
      [] tool = "delegate_content_creation" -> "content_creation"

\* C3: a successful request routed to one specialization appended exactly one
\* TaskRecord, with one agent in agents_used and the task_type of that
\* specialization.
C3_SingleOneRecord ==
    (Succeeded /\ Len(calls) = 1 /\ calls[1] \in SingleTools) =>
        /\ Len(TasksSince) = 1
        /\ Len(TasksSince[1].agents_used) = 1
        /\ TasksSince[1].task_type = KindOfTool(calls[1])

C3_Witness ==
    /\ Succeeded
    /\ calls = <<"delegate_code_analysis">>
    /\ task_mark > 0

(***************************************************************************)
(* C4                                                                      *)
(***************************************************************************)
\* C4 as stated: every exception of the coordinator's run or of a
\* specialist's run is caught in process_request: the step in which it is
\* raised leaves the session idle, returns the text with the error prefix as
\* the response and appends a system entry carrying that text; no exception
\* leaves process_request, and the next request can then be processed.
C4_EveryErrorCaught ==
    [][last_op' \in {"process_request_except",
                     "exception_never_retrieved"} =>
             /\ pc' = "idle"
             /\ outcome' = "error"
             /\ response'[1] = ErrorPrefix
             /\ Len(context'.conversation_history) =
                    Len(context.conversation_history) + 1
             /\ IsErrorEntry(context'.conversation_history[
                                 Len(context'.conversation_history)])
             /\ context'.conversation_history[
                    Len(context'.conversation_history)].content =
                        response']_vars

\* two specialist runs of the first request raised: the first ended the
\* request with its error entry; the second, left running, raised while the
\* second request awaited the coordinator, and nothing caught or logged it
C4_Witness ==
    /\ ~dispatcher_cancels
    /\ last_op = "exception_never_retrieved"
    /\ n_requests = 2
    /\ pc = "coordinator"
    /\ outcome = "pending"
    /\ invoked[1] = 2
    /\ returned_ok[1] = 0
    /\ DOMAIN in_flight = {}
    /\ CountErrors(ConversationLog) = 1
    /\ TaskHistory = <<>>

(***************************************************************************)
(* C5                                                                      *)
(***************************************************************************)
\* C5: the step in which a request fails rolls nothing back: the task history
\* and the last-result map are left as they were, and the conversation log is
\* the log before the failure plus the one error entry.
C5_NoRollback ==
    [][(outcome = "pending" /\ outcome' = "error") =>
          /\ context'.task_history = context.task_history
          /\ context'.agent_results = context.agent_results
          /\ Len(context'.conversation_history) =
                 Len(context.conversation_history) + 1
          /\ SubSeq(context'.conversation_history, 1,
                    Len(context.conversation_history)) =
                 context.conversation_history
          /\ IsErrorEntry(context'.conversation_history[
                              Len(context'.conversation_history)])]_vars

\* a composite request whose content-creation run failed: the research record
\* and the research result written before the failure are there
C5_Witness ==
    /\ Failed
    /\ calls = <<"complex_research_analysis">>
    /\ Len(TasksSince) = 1
    /\ TasksSince[1].task_type = "research"
    /\ ResearchAgent \in DOMAIN LastResults
    /\ LastResults[ResearchAgent] = last_returned[ResearchAgent]
    /\ Len(ConvSince) = 5

(***************************************************************************)
(* C6                                                                      *)
(***************************************************************************)
\* C6 as stated: at most one specialist run is in flight at any time; in
\* complex_research_analysis the creative run is in flight only after the
\* research run returned its result, and its prompt carries that result's
\* summary and key points.
C6_Sequential ==
    /\ Cardinality(DOMAIN in_flight) <= 1
    /\ \A id \in DOMAIN in_flight :
          LET frame == in_flight[id]
          IN  frame.tool = "complex_research_analysis" =>
                /\ frame.agent = ResearchAgent =>
                       frame.research_result = NoResult
                /\ frame.agent = CreativeAgent =>
                       /\ frame.research_result # NoResult
                       /\ frame.prompt[2] = "report"
                       /\ frame.prompt[4][2] = frame.research_result.summary
                       /\ frame.prompt[4][4] =
                              frame.research_result.key_points

(***************************************************************************)
(* C7                                                                      *)
(***************************************************************************)
\* C7: get_task_history leaves the context unchanged; on an empty task history
\* it returns the fixed message, otherwise it renders the last min(5, n) of
\* the n records in their order.
C7_HistoryReporter ==
    [][last_op' = "get_task_history" =>
          /\ context' = context
          /\ LET n == Len(context.task_history)
                 k == IF n < 5 THEN n ELSE 5
                 out == history_output'
             IN  /\ n = 0 => out.header = <<NoTasksMessage>>
                 /\ n > 0 => out.header # <<NoTasksMessage>>
                 /\ Len(out.entries) = k
                 /\ \A i \in 1..k :
                       LET task == context.task_history[n - k + i]
                       IN  /\ out.entries[i][1] = i
                           /\ out.entries[i][2] = upper(task.task_type)
                           /\ out.entries[i][3] = task.result_summary
                           /\ out.entries[i][4] = task.agents_used
                           /\ out.entries[i][5] = task.status]_vars

\* the coordinator called get_task_history after two composite calls of its
\* request had returned: of the six records the reporter rendered the last
\* five
C7_Witness ==
    /\ last_op = "get_task_history"
    /\ pc = "coordinator"
    /\ calls = <<"complex_research_analysis", "complex_research_analysis",
                 "get_task_history">>
    /\ Len(TaskHistory) = 6
    /\ Len(history_output.entries) = 5
    /\ history_output.entries[1][2] = upper(TaskHistory[2].task_type)
    /\ history_output.entries[5][2] = "COMPLEX_ANALYSIS"

(***************************************************************************)
(* C8                                                                      *)
(***************************************************************************)
\* C8: the last-result map holds, under each agent that has returned a result,
\* the result of its latest run that returned, and no entry for any other
\* agent.
C8_LastResultMap ==
    /\ DOMAIN LastResults \subseteq Agents
    /\ \A a \in Agents :
          IF last_returned[a] = NoResult
          THEN a \notin DOMAIN LastResults
          ELSE /\ a \in DOMAIN LastResults
               /\ LastResults[a] = last_returned[a]

\* the code agent returned twice with different results, the second
\* overwrote the first; the agents that never returned have no entry
C8_Witness ==
    /\ \E i, j \in 1..Len(TaskHistory) :
          /\ i < j
          /\ TaskHistory[i].task_type = "code_analysis"
          /\ TaskHistory[j].task_type = "code_analysis"
          /\ TaskHistory[i].result_summary[4] = 10
          /\ TaskHistory[j].result_summary[4] = 1
    /\ LastResults[CodeAgent].complexity_score = 1
    /\ ResearchAgent \notin DOMAIN LastResults
    /\ CreativeAgent \notin DOMAIN LastResults

(***************************************************************************)
(* C9                                                                      *)
(***************************************************************************)
\* C9: every stored ResearchResult has 3 to 5 key points and every stored
\* CodeAnalysis a complexity_score from 1 to 10, and so has every result a
\* TaskRecord summarizes.
C9_SchemaBounds ==
    /\ \A a \in DOMAIN LastResults :
          /\ a = ResearchAgent =>
                 Len(LastResults[a].key_points) \in 3..5
          /\ a = CodeAgent =>
                 LastResults[a].complexity_score \in 1..10
    /\ LET r == last_returned[ResearchAgent]
       IN  r # NoResult => Len(r.key_points) \in 3..5
    /\ \A i \in 1..Len(TaskHistory) :
          TaskHistory[i].task_type = "code_analysis" =>
              TaskHistory[i].result_summary[4] \in 1..10

\* a valid research result is stored; the code agent's candidate was then
\* rejected and left neither a result nor a record
C9_Witness ==
    /\ Failed
    /\ response = <<ErrorPrefix, "SchemaViolation">>
    /\ calls = <<"delegate_research", "delegate_code_analysis">>
    /\ ResearchAgent \in DOMAIN LastResults
    /\ Len(LastResults[ResearchAgent].key_points) = 3
    /\ CodeAgent \notin DOMAIN LastResults
    /\ CountKind(TaskHistory, "code_analysis") = 0

(***************************************************************************)
(* C10                                                                     *)
(***************************************************************************)
Whitespace == {" "}

\* len(text.split()): the number of maximal runs of non-whitespace characters
RECURSIVE WordsFrom(_, _, _)
WordsFrom(text, i, in_word) ==
    IF i > Len(text) THEN 0
    ELSE IF text[i] \in Whitespace THEN WordsFrom(text, i + 1, FALSE)
    ELSE (IF in_word THEN 0 ELSE 1) + WordsFrom(text, i + 1, TRUE)

WordCount(text) == WordsFrom(text, 1, FALSE)

\* C10: the stored CreativeContent's word_count is the number of words of its
\* content.
C10_WordCountMatches ==
    CreativeAgent \in DOMAIN LastResults =>
        LastResults[CreativeAgent].word_count =
            WordCount(LastResults[CreativeAgent].content)

(***************************************************************************)
(* C11                                                                     *)
(***************************************************************************)
IsPrefix(old, new) ==
    /\ Len(old) <= Len(new)
    /\ SubSeq(new, 1, Len(old)) = old

\* C11: every step leaves the conversation log and the task history it found
\* as a prefix of what it leaves: entries are only ever appended.
C11_AppendOnly ==
    [][/\ IsPrefix(context.conversation_history,
                   context'.conversation_history)
       /\ IsPrefix(context.task_history, context'.task_history)]_vars

\* both sequences grew over two requests; in the second a specialist wrote
\* its record, the coordinator read the history and its run then failed
C11_Witness ==
    /\ Failed
    /\ n_requests = 2
    /\ task_mark >= 3
    /\ conv_mark >= 5
    /\ calls = <<"delegate_code_analysis", "get_task_history">>
    /\ Len(TasksSince) = 1
    /\ Len(ConversationLog) = conv_mark + 3

(***************************************************************************)
(* C12                                                                     *)
(***************************************************************************)
\* C12 as stated: a request is accepted only when the one before it has
\* been processed fully, the session being idle with nothing of that request
\* left in flight; and, every awaited external call ending, a request in
\* progress leads to the idle session with a response text, of success or of
\* error.
C12_OneRequestFully ==
    /\ [][n_requests' # n_requests =>
             /\ pc = "idle"
             /\ outcome # "pending"
             /\ DOMAIN in_flight = {}]_vars
    /\ (pc # "idle") ~> (RequestEnded /\ response # <<>>)

\* the second request is in progress while a specialist run of the first,
\* which returned its error, is still in flight
C12_Witness ==
    /\ n_requests = 2
    /\ pc = "coordinator"
    /\ outcome = "pending"
    /\ \E id \in DOMAIN in_flight : in_flight[id].req = 1
    /\ \E i \in 1..conv_mark : IsErrorEntry(ConversationLog[i])

(***************************************************************************)
(* C13                                                                     *)
(***************************************************************************)
\* the text with which a delegate operation announces itself
AnnouncementOf(op) ==
    CASE op = "complex_research_analysis" -> "Starting complex analysis: "
      [] op = "delegate_research"         -> "Delegating research: "
      [] op = "delegate_code_analysis"    -> "Delegating code analysis for "
      [] op = "delegate_content_creation" -> "Delegating content creation: "

\* the delegate operation that invokes an agent
DelegateOf(agent) ==
    CASE agent = ResearchAgent -> "delegate_research"
      [] agent = CodeAgent     -> "delegate_code_analysis"
      [] agent = CreativeAgent -> "delegate_content_creation"

\* C13 as stated: what a request appended to the conversation log is the user
\* entry first, then one system entry of the coordinator per delegate
\* operation entered, the tool calls in call order, then (once the request
\* has returned) the assistant entry or the system error entry last; the
\* operation of a run in flight has been announced, and a composite request
\* that returned its answer announced three times.
C13_Announcements ==
    outcome # "none" =>
        LET conv == ConvSince
            who  == SpeakersOf(n_requests)
            n    == Len(conv)
            last == IF RequestEnded THEN n - 1 ELSE n
        IN  /\ Len(who) = n
            /\ conv[1].role = "user"
            /\ RequestEnded =>
                   \/ conv[n].role = "assistant"
                   \/ IsErrorEntry(conv[n])
            /\ \A k \in 2..last :
                  /\ conv[k].role = "system"
                  /\ conv[k].agent = "coordinator"
                  /\ conv[k].content[1] = AnnouncementOf(who[k][3])
            /\ \A j, k \in 2..last :
                  (j < k /\ who[k][2] < who[j][2]) =>
                      \E m \in 2..(j - 1) : who[m][2] = who[k][2]
            /\ \A id \in DOMAIN in_flight :
                  in_flight[id].req = n_requests =>
                      \E k \in 2..n :
                          who[k] = <<n_requests, id,
                                     DelegateOf(in_flight[id].agent)>>
            /\ (Succeeded /\ calls = <<"complex_research_analysis">>) =>
                   CountRole(conv, "system") = 3

(***************************************************************************)
(* C14                                                                     *)
(***************************************************************************)
\* C14: every TaskRecord there is has status "completed"; the step in which a
\* run fails writes no TaskRecord and no last-result entry; a composite
\* record is written only by a composite call whose research and content
\* creation have both written their records before, never by one that is
\* still suspended or was cut short.
C14_OnlyCompletedRecords ==
    [][/\ \A i \in 1..Len(context'.task_history) :
             context'.task_history[i].status = "completed"
       /\ Len(writer') = Len(context'.task_history)
       /\ ((outcome = "pending" /\ outcome' = "error")
              \/ last_op' = "exception_never_retrieved") =>
             /\ context'.task_history = context.task_history
             /\ context'.agent_results = context.agent_results
             /\ last_returned' = last_returned
             /\ returned_ok' = returned_ok
       /\ \A k \in 1..Len(context'.task_history) :
             context'.task_history[k].task_type = "complex_analysis" =>
                 /\ writer'[k][2] \notin DOMAIN in_flight'
                 /\ \E i, j \in 1..(k - 1) :
                       /\ i < j
                       /\ writer'[i] = writer'[k]
                       /\ writer'[j] = writer'[k]
                       /\ context'.task_history[i].task_type = "research"
                       /\ context'.task_history[j].task_type =
                              "content_creation"]_vars

\* a code analysis failed while a composite call was under way; the composite
\* call was left running, its research wrote its record after the error
\* response and its content-creation run then failed: no composite record
C14_Witness ==
    /\ Failed
    /\ calls = <<"delegate_code_analysis", "complex_research_analysis">>
    /\ last_op = "exception_never_retrieved"
    /\ DOMAIN in_flight = {}
    /\ Len(TasksSince) = 1
    /\ TasksSince[1].task_type = "research"
    /\ invoked[n_requests] = 3
    /\ returned_ok[n_requests] = 1
    /\ CountKind(TaskHistory, "complex_analysis") = 0

====
